---- MODULE Spec2Model ----
(***************************************************************************)
(* Verification model of the hitsave blob transfer protocol:               *)
(*   - the framed decoder  (api/src/extractors/with_blob.rs)               *)
(*   - the content-addressed store (api/src/persisters/s3store.rs)         *)
(*   - the insert-or-fetch persisters (api/src/persisters/eval.rs, blob.rs)*)
(***************************************************************************)
EXTENDS Integers, Sequences, FiniteSets, TLC

VARIABLES body, pos, hist, fut, blob, items, ended,
          objects, st,
          blobs, evals, reqs, ncalls

decVars == <<body, pos, hist, fut, blob, items, ended>>

storeVars == <<objects, st>>

dbVars == <<blobs, evals, reqs, ncalls>>

vars == <<body, pos, hist, fut, blob, items, ended, objects, st, blobs, evals, reqs, ncalls>>

----------------------------------------------------------------------------
(* Bounds of the decoder model *)
MaxMetaLen == 3
MaxPayloadLen == 2

(* Byte values *)
LBrace == 123
RBrace == 125
Field == 102
XByte == 88

MetaBytes == {LBrace, RBrace, Field}
PayloadBytes == {XByte, RBrace}

(* Option<T> is a sequence of at most one element *)
None == <<>>
Some(x) == <<x>>

Take(s, k) == SubSeq(s, 1, k)
Drop(s, k) == SubSeq(s, k + 1, Len(s))

SeqsUpTo(S, n) == UNION {[1..k -> S] : k \in 0..n}

----------------------------------------------------------------------------
(* u32::from_be_bytes *)
FromBeBytes(s) == s[1] * 16777216 + s[2] * 65536 + s[3] * 256 + s[4]

(* the 4-byte big-endian length prefix a client writes for a length n *)
ToBeBytes(n) ==
    << (n \div 16777216) % 256, (n \div 65536) % 256, (n \div 256) % 256, n % 256 >>

(* serde_json::from_slice::<M> for a schema M with required fields: the     *)
(* block must be one object with at least one field.                        *)
FromSlice(s) ==
    IF /\ Len(s) >= 3
       /\ s[1] = LBrace
       /\ s[Len(s)] = RBrace
       /\ \A i \in 2..(Len(s) - 1) : s[i] = Field
    THEN [ok |-> TRUE, val |-> SubSeq(s, 2, Len(s) - 1)]
    ELSE [ok |-> FALSE, val |-> <<>>]

(* FromRequest::from_request: the initial state of the future *)
FromRequest ==
    [ size_buf |-> <<>>,
      metadata_len |-> None,
      metadata_received |-> 0,
      metadata_buf |-> <<>>,
      res |-> "Pending",
      meta |-> <<>>,
      init_bytes |-> None,
      err |-> None ]

Resolve(f, m, first_blob_bytes) ==
    IF m.ok
    THEN [f EXCEPT !.res = "Ok", !.meta = m.val, !.init_bytes = Some(first_blob_bytes)]
    ELSE [f EXCEPT !.res = "Deserialize"]

(* One iteration of the loop of BTExtractMetadataFut::poll on Some(Ok(chunk)),
   while the length is not yet known. *)
PollLength(f, chunk) ==
    LET buf_len == Len(f.size_buf) + Len(chunk) IN
    IF buf_len > 4
    THEN LET buf == f.size_buf \o Take(chunk, buf_len - 4)
             f1 == [f EXCEPT !.size_buf = buf]
         IN  IF Len(buf) < 4 \/ Len(chunk) < 4
             THEN [f1 EXCEPT !.res = "Panic"]
             ELSE LET sentinel == Take(buf, 4)
                      rem == Drop(chunk, 4)
                      metadata_len == FromBeBytes(sentinel)
                      f2 == [f1 EXCEPT !.metadata_len = Some(metadata_len)]
                  IN  IF Len(rem) > metadata_len
                      THEN Resolve(f2, FromSlice(Take(rem, metadata_len)),
                                   Drop(rem, metadata_len))
                      ELSE [f2 EXCEPT !.metadata_buf = f.metadata_buf \o rem,
                                      !.metadata_received = Len(rem)]
    ELSE [f EXCEPT !.size_buf = f.size_buf \o chunk]

(* One iteration of the loop on Some(Ok(chunk)) once the length is known. *)
PollMetadata(f, chunk) ==
    LET metadata_len == f.metadata_len[1] IN
    IF f.metadata_received + Len(chunk) >= metadata_len
    THEN LET final_bytes_len == metadata_len - f.metadata_received
             final_bytes == Take(chunk, final_bytes_len)
             first_blob_bytes == Drop(chunk, final_bytes_len)
             f1 == [f EXCEPT !.metadata_buf = f.metadata_buf \o final_bytes,
                             !.metadata_received = f.metadata_received + Len(final_bytes)]
         IN  Resolve(f1, FromSlice(f1.metadata_buf), first_blob_bytes)
    ELSE [f EXCEPT !.metadata_buf = f.metadata_buf \o chunk]

PollChunk(f, chunk) ==
    IF f.metadata_len = None THEN PollLength(f, chunk) ELSE PollMetadata(f, chunk)

(* The loop iteration on None *)
PollNone(f) == [f EXCEPT !.res = "UnexpectedEOF"]

----------------------------------------------------------------------------
(* Request bodies: every envelope prefix ++ metadata ++ payload *)
Envelope(meta, payload) == ToBeBytes(Len(meta)) \o meta \o payload

Envelopes ==
    { Envelope(m, p) : m \in SeqsUpTo(MetaBytes, MaxMetaLen),
                       p \in SeqsUpTo(PayloadBytes, MaxPayloadLen) }

----------------------------------------------------------------------------
(* The content-addressed store: S3Store::store_blob *)

(* Bounds of the store model *)
MaxBlobLen == 2
MaxDeclaredLen == 3
MaxStoreCalls == 2

RECURSIVE Flatten(_)
Flatten(ss) == IF ss = <<>> THEN <<>> ELSE Head(ss) \o Flatten(Tail(ss))

(* blake3 digest of a byte string, as an injective code of the string *)
RECURSIVE Blake3(_)
Blake3(s) == IF s = <<>> THEN 0 ELSE (Head(s) + 1) + 257 * Blake3(Tail(s))

(* Hasher::new / update / finalize: the hasher holds the bytes fed so far *)
HasherNew == <<>>
HasherUpdate(h, b) == h \o b
HasherFinalize(h) == Blake3(h)

(* Hash::to_hex: lowercase hex digits, most significant first *)
HexDigits == 8
RECURSIVE HexOf(_, _)
HexOf(n, k) == IF k = 0 THEN <<>> ELSE Append(HexOf(n \div 16, k - 1), n % 16)
ToHex(h) == HexOf(h, HexDigits)

(* Hash::from_hex on a well-formed hex string *)
RECURSIVE FromHex(_)
FromHex(d) == IF d = <<>> THEN 0 ELSE 16 * FromHex(Take(d, Len(d) - 1)) + d[Len(d)]

(* The closure given to scan() in store_blob, folded over the items of the
   payload stream.  An item is [ok, b]: Ok(bytes) or Err(WithBlobError). *)
RECURSIVE Scan(_, _, _, _, _)
Scan(its, h, len, hash_claim, content_length) ==
    IF its = <<>> THEN <<>>
    ELSE LET item == Head(its) IN
         IF item.ok
         THEN LET h1 == HasherUpdate(h, item.b)
                  len1 == len + Len(item.b)
                  out == IF len1 = content_length /\ HasherFinalize(h1) # hash_claim
                         THEN [tag |-> "InvalidHash", b |-> <<>>]
                         ELSE [tag |-> "Ok", b |-> item.b]
              IN  <<out>> \o Scan(Tail(its), h1, len1, hash_claim, content_length)
         ELSE <<[tag |-> "WithBlob", b |-> <<>>]>>
                  \o Scan(Tail(its), h, len, hash_claim, content_length)

(* index of the first error item of a scanned stream, 0 if there is none *)
FirstErr(out) ==
    IF \E i \in 1..Len(out) : out[i].tag # "Ok"
    THEN CHOOSE i \in 1..Len(out) :
            out[i].tag # "Ok" /\ \A j \in 1..(i - 1) : out[j].tag = "Ok"
    ELSE 0

Min(a, b) == IF a < b THEN a ELSE b

(* The outcomes of put_object().body(stream).content_length(n).send(): the
   request fails on the first error item of the body; a body whose length
   differs from the declared one may be rejected or accepted by the backend
   (BlobMetadata::content_length: "may fail"); any request may fail. *)
PutObject(out, content_length) ==
    LET sent == Flatten([i \in 1..Len(out) |-> out[i].b]) IN
    IF FirstErr(out) # 0
    THEN { [res |-> "S3", cause |-> out[FirstErr(out)].tag, stored |-> None] }
    ELSE { [res |-> "S3", cause |-> "Backend", stored |-> None],
           [res |-> "Ok", cause |-> "", stored |-> Some(Take(sent, Min(Len(sent), content_length)))] }

(* S3Store::store_blob: the set of results it can return with the object it
   leaves under the key hash_claim.to_hex() *)
StoreBlob(its, hash_claim, content_length) ==
    PutObject(Scan(its, HasherNew, 0, hash_claim, content_length), content_length)

(* S3Store::retrieve_blob: get_object().key(hash.to_hex()).send().await
   .unwrap().body.  The request fails when there is no object under the key
   (NoSuchKey) and may fail for any backend reason; unwrap() panics on a
   failure. *)
RetrieveBlob(objs, content_hash) ==
    LET o == objs[ToHex(content_hash)] IN
    IF o = None
    THEN { [res |-> "Panic", cause |-> "NoSuchKey", body |-> None] }
    ELSE { [res |-> "Ok", cause |-> "", body |-> o],
           [res |-> "Panic", cause |-> "Backend", body |-> None] }

----------------------------------------------------------------------------
(* The relational store and the persisters (persisters/eval.rs, blob.rs).
   A row carries the call that inserted it and whether that insertion is
   committed; under read committed a statement sees the committed rows and
   the rows of its own transaction. *)

(* Bound: the number of upload requests served in one run *)
MaxCalls == 2

(* the request tasks the executor runs concurrently *)
Slots == {1, 2}

ApiKeys == {"k1", "k2"}
FnKeys == {"f"}
FnHashes == {"h1"}
ArgsHashes == {"a1", "a2"}

(* SQL function user_from_key: the owner of an API key, 0 for NULL *)
UserFromKey(k) == CASE k = "k1" -> 1 [] k = "k2" -> 2 [] OTHER -> 0

(* the blobs table has a uniqueness constraint on (user_id, content_hash) *)
BlobsUnique == TRUE

(* blobs.user_id and evals.user_id are NOT NULL: a row whose owner is
   user_from_key of a key without owner is rejected *)
UserIdNotNull == TRUE

(* the evals table has no uniqueness constraint on
   (user_id, fn_key, fn_hash, args_hash): NOTE in EvalInsert::persist *)
EvalsUnique == FALSE

InTx_Never(kind) == FALSE

(* the persist call of a kind of request runs its statements in a transaction *)
InTx(kind) == kind = "put_eval"

SetMin(S) == CHOOSE x \in S : \A y \in S : x <= y

NextId(rows) == IF rows = {} THEN 1 ELSE 1 + CHOOSE x \in {r.id : r \in rows} : \A y \in {r.id : r \in rows} : y <= x

(* rows a statement of call c can see *)
Visible(rows, c) == { r \in rows : r.committed \/ r.by = c }

SameBlobKey_Never(r, user_id, content_hash) == FALSE

SameBlobKey(r, user_id, content_hash) ==
    r.user_id = user_id /\ r.content_hash = content_hash

SameEvalKey(r, user_id, fn_key, fn_hash, args_hash) ==
    /\ r.user_id = user_id
    /\ r.fn_key = fn_key
    /\ r.fn_hash = fn_hash
    /\ r.args_hash = args_hash

(* CTE s of the blob statement, evaluated on the statement's snapshot *)
BlobSelect(rows, c, api_key, content_hash) ==
    { r.id : r \in { x \in Visible(rows, c) :
                       SameBlobKey(x, UserFromKey(api_key), content_hash) } }

(* CTE s of the eval statement *)
EvalSelect(rows, c, api_key, fn_key, fn_hash, args_hash) ==
    { r.id : r \in { x \in Visible(rows, c) :
                       SameEvalKey(x, UserFromKey(api_key), fn_key, fn_hash, args_hash) } }

(* INSERT ... ON CONFLICT DO NOTHING waits for an in-progress transaction
   that inserted a row with the same unique key *)
MustWait(conflicting, c) == \E r \in conflicting : ~r.committed /\ r.by # c

FetchOne_SelectFirst(i, s) ==
    IF s # {} THEN Some(SetMin(s))
    ELSE IF i # {} THEN Some(SetMin(i))
    ELSE None

(* fetch_one on "SELECT id FROM i UNION ALL SELECT id FROM s": the first row,
   None standing for sqlx::Error::RowNotFound *)
FetchOne(i, s) ==
    IF i # {} THEN Some(SetMin(i))
    ELSE IF s # {} THEN Some(SetMin(s))
    ELSE None

AfterStore_IgnoreErr(res) == "persist"

(* WithBlob::persist: the step that follows the result of store_blob *)
AfterStore(res) == IF res = "Ok" THEN "persist" ELSE "done"

NoReq ==
    [call |-> 0, kind |-> "", pc |-> "idle", api_key |-> "", content_hash |-> <<>>,
     fn_key |-> "", fn_hash |-> "", args_hash |-> "", stored |-> "",
     s |-> {}, blob_id |-> None, peer |-> 0, res |-> "", ret |-> None,
     auth |-> "", contacted |-> FALSE,
     is_experiment |-> FALSE, params |-> None, polled |-> FALSE, rows |-> {},
     header |-> None, extracted |-> None, only_api_key |-> None, only_jwt |-> None,
     rng |-> None, key |-> <<>>]

DbIdle ==
    /\ blobs = {}
    /\ evals = {}
    /\ reqs = [r \in Slots |-> NoReq]
    /\ ncalls = 0

----------------------------------------------------------------------------
(* Inputs of the store model *)
Blobs == SeqsUpTo(PayloadBytes, MaxBlobLen)

(* the hashes clients claim: the digests of the two one-byte blobs *)
HashClaims == { Blake3(<<c>>) : c \in PayloadBytes }

ObjectKeys == { ToHex(h) : h \in HashClaims }

(* the item sequences a BlobPayload yields for the bytes b: the initial
   bytes (possibly empty), then the remaining bytes in one or more chunks *)
RECURSIVE Chunkings(_)
Chunkings(b) ==
    IF b = <<>> THEN { <<>> }
    ELSE UNION { { <<Take(b, k)>> \o c : c \in Chunkings(Drop(b, k)) } : k \in 1..Len(b) }

PayloadItems(b) ==
    UNION { { <<Take(b, k)>> \o c : c \in Chunkings(Drop(b, k)) } : k \in 0..Len(b) }

OkItems(cs) == [i \in 1..Len(cs) |-> [ok |-> TRUE, b |-> cs[i]]]

(* History of a run: the size of the first chunk, the number of chunks the
   future consumed (counted up to 2), the number of chunks consumed when the
   source was last not ready (-1: it always was), and the future as it is
   when driven by a source that is always ready on the same chunks *)
NoHist == [first |-> -1, n |-> 0, pending |-> -1, ref |-> FromRequest,
           srcerr |-> None, errphase |-> ""]

DecoderIdle ==
    /\ body = <<>>
    /\ pos = 0
    /\ hist = NoHist
    /\ fut = FromRequest
    /\ blob = None
    /\ items = <<>>
    /\ ended = FALSE

(* no retrieve_blob call was made since the last store_blob call *)
NoGet == [hash |-> 0, res |-> "", cause |-> "", body |-> None]

NoCall ==
    [items |-> <<>>, hash_claim |-> 0, content_length |-> 0,
     err |-> FALSE, prior |-> None, res |-> "", cause |-> "", n |-> 0,
     get |-> NoGet]

StoreIdle ==
    /\ objects = [k \in ObjectKeys |-> None]
    /\ st = NoCall

----------------------------------------------------------------------------
(* The decoder driven by a chunk source *)
InitDecoder ==
    /\ StoreIdle
    /\ DbIdle
    /\ body \in Envelopes
    /\ pos = 0
    /\ hist = NoHist
    /\ fut = FromRequest
    /\ blob = None
    /\ items = <<>>
    /\ ended = FALSE

Record(n) ==
    [hist EXCEPT !.first = IF hist.first = -1 THEN n ELSE hist.first,
                 !.n = IF hist.n < 2 THEN hist.n + 1 ELSE hist.n]

Suspend_Reset(f) == FromRequest

(* poll returns Poll::Pending through ready!: the future is left as it is *)
Suspend(f) == f

(* BTExtractMetadataFut::poll, one loop iteration: the source yields a chunk *)
Poll_Chunk ==
    /\ fut.res = "Pending"
    /\ \E n \in 1..(Len(body) - pos) :
          /\ fut' = PollChunk(fut, SubSeq(body, pos + 1, pos + n))
          /\ pos' = pos + n
          /\ hist' = [Record(n) EXCEPT
                        !.ref = PollChunk(hist.ref, SubSeq(body, pos + 1, pos + n))]
    /\ blob' = IF fut'.res = "Ok" THEN Some([init_bytes |-> fut'.init_bytes]) ELSE blob
    /\ UNCHANGED <<body, items, ended, storeVars, dbVars>>

(* BTExtractMetadataFut::poll, one loop iteration: the source has ended *)
Poll_None ==
    /\ fut.res = "Pending"
    /\ pos = Len(body)
    /\ fut' = PollNone(fut)
    /\ hist' = [hist EXCEPT !.ref = PollNone(hist.ref)]
    /\ UNCHANGED <<body, pos, blob, items, ended, storeVars, dbVars>>

(* BTExtractMetadataFut::poll: the source is not ready, poll returns Pending
   and is called again when the source wakes the task *)
Poll_Pending ==
    /\ fut.res = "Pending"
    /\ hist.pending # hist.n
    /\ fut' = Suspend(fut)
    /\ hist' = [hist EXCEPT !.pending = hist.n]
    /\ UNCHANGED <<body, pos, blob, items, ended, storeVars, dbVars>>

(* BlobPayload::poll_next while init_bytes is Some *)
PollNext_Init ==
    /\ blob # None
    /\ blob[1].init_bytes # None
    /\ items' = Append(items, blob[1].init_bytes[1])
    /\ blob' = Some([init_bytes |-> None])
    /\ UNCHANGED <<body, pos, hist, fut, ended, storeVars, dbVars>>

(* BlobPayload::poll_next delegating to the payload: a chunk *)
PollNext_Chunk ==
    /\ blob # None
    /\ blob[1].init_bytes = None
    /\ ~ended
    /\ \E n \in 1..(Len(body) - pos) :
          /\ items' = Append(items, SubSeq(body, pos + 1, pos + n))
          /\ pos' = pos + n
    /\ UNCHANGED <<body, hist, fut, blob, ended, storeVars, dbVars>>

PollNext_None_Early ==
    /\ blob # None
    /\ blob[1].init_bytes = None
    /\ ~ended
    /\ ended' = TRUE
    /\ UNCHANGED <<body, pos, hist, fut, blob, items, storeVars, dbVars>>

(* BlobPayload::poll_next delegating to the payload: end of stream *)
PollNext_None ==
    /\ blob # None
    /\ blob[1].init_bytes = None
    /\ ~ended
    /\ pos = Len(body)
    /\ ended' = TRUE
    /\ UNCHANGED <<body, pos, hist, fut, blob, items, storeVars, dbVars>>

NextDecoder ==
    \/ Poll_Chunk
    \/ Poll_None
    \/ Poll_Pending
    \/ PollNext_Init
    \/ PollNext_Chunk
    \/ PollNext_None

SpecDecoder == InitDecoder /\ [][NextDecoder]_vars

(* The decoder on a source that may fail *)
PayloadErrors == {"Incomplete", "Io"}

PollErr_Swallow(f, e) == f

(* BTExtractMetadataFut::poll on Some(Err(e)): chunk? returns
   Err(WithBlobError::from(e)) *)
PollErr(f, e) == [f EXCEPT !.res = "Payload", !.err = Some(e)]

(* BTExtractMetadataFut::poll, one loop iteration: the source yields an error *)
Poll_Err ==
    /\ fut.res = "Pending"
    /\ \E e \in PayloadErrors :
          /\ fut' = PollErr(fut, e)
          /\ hist' = [hist EXCEPT !.ref = PollErr(hist.ref, e),
                                  !.srcerr = Some(e), !.errphase = "metadata"]
    /\ UNCHANGED <<body, pos, blob, items, ended, storeVars, dbVars>>

(* BlobPayload::poll_next delegating to the payload: the source yields an
   error, which becomes the item Err(WithBlobError::Payload(e)); the stream
   is not polled again *)
PollNext_Err ==
    /\ blob # None
    /\ blob[1].init_bytes = None
    /\ ~ended
    /\ \E e \in PayloadErrors :
          /\ items' = Append(items, [Payload |-> e])
          /\ hist' = [hist EXCEPT !.srcerr = Some(e), !.errphase = "payload"]
    /\ ended' = TRUE
    /\ UNCHANGED <<body, pos, fut, blob, storeVars, dbVars>>

NextDecoderErr ==
    \/ NextDecoder
    \/ Poll_Err
    \/ PollNext_Err

SpecDecoderErr == InitDecoder /\ [][NextDecoderErr]_vars

(* The decoder on a source that does not stall: the executor polls the
   future again whenever the source wakes it, and the source goes on to its
   next chunk, its end or an error *)
SpecDecoderLive ==
    /\ InitDecoder
    /\ [][NextDecoderErr]_vars
    /\ WF_vars(Poll_Chunk \/ Poll_None \/ Poll_Err)

(* The decoder on envelopes whose metadata is long enough to arrive in
   several chunks after the chunk that holds the length prefix *)
MaxLongMetaLen == 6

LongMetas ==
    { <<LBrace>> \o [i \in 1..k |-> Field] \o <<RBrace>> : k \in 1..(MaxLongMetaLen - 2) }

LongEnvelopes ==
    { Envelope(m, p) : m \in LongMetas, p \in SeqsUpTo({XByte}, MaxPayloadLen) }

InitDecoderLong ==
    /\ StoreIdle
    /\ DbIdle
    /\ body \in LongEnvelopes
    /\ pos = 0
    /\ hist = NoHist
    /\ fut = FromRequest
    /\ blob = None
    /\ items = <<>>
    /\ ended = FALSE

SpecDecoderLong == InitDecoderLong /\ [][NextDecoder]_vars

(* The decoder on bodies that may end before the metadata is complete *)
TruncatedBodies ==
    UNION { { Take(Envelope(m, <<>>), k) : k \in 0..(3 + Len(m)) } :
            m \in SeqsUpTo(MetaBytes, MaxMetaLen) }

InitDecoderEOF ==
    /\ StoreIdle
    /\ DbIdle
    /\ body \in Envelopes \cup TruncatedBodies
    /\ pos = 0
    /\ hist = NoHist
    /\ fut = FromRequest
    /\ blob = None
    /\ items = <<>>
    /\ ended = FALSE

SpecDecoderEOF == InitDecoderEOF /\ [][NextDecoder]_vars

----------------------------------------------------------------------------
(* store_blob called on payload streams *)
InitStore ==
    /\ DecoderIdle
    /\ DbIdle
    /\ StoreIdle

(* one call of store_blob on a payload stream without transport errors *)
Store_Blob ==
    /\ st.n < MaxStoreCalls
    /\ \E b \in Blobs, hash_claim \in HashClaims, content_length \in 0..MaxDeclaredLen :
      \E cs \in PayloadItems(b) :
        \E o \in StoreBlob(OkItems(cs), hash_claim, content_length) :
          /\ st' = [items |-> cs, hash_claim |-> hash_claim,
                    content_length |-> content_length, err |-> FALSE,
                    prior |-> objects[ToHex(hash_claim)],
                    res |-> o.res, cause |-> o.cause, n |-> st.n + 1,
                    get |-> NoGet]
          /\ objects' = IF o.res = "Ok"
                        THEN [objects EXCEPT ![ToHex(hash_claim)] = o.stored]
                        ELSE objects
          /\ UNCHANGED <<decVars, dbVars>>

(* one call of store_blob whose payload stream yields a transport error
   after the chunks cs *)
Store_Blob_Err ==
    /\ st.n < MaxStoreCalls
    /\ \E b \in Blobs, hash_claim \in HashClaims, content_length \in 0..MaxDeclaredLen :
      \E cs \in PayloadItems(b) :
        \E o \in StoreBlob(Append(OkItems(cs), [ok |-> FALSE, b |-> <<>>]),
                           hash_claim, content_length) :
          /\ st' = [items |-> cs, hash_claim |-> hash_claim,
                    content_length |-> content_length, err |-> TRUE,
                    prior |-> objects[ToHex(hash_claim)],
                    res |-> o.res, cause |-> o.cause, n |-> st.n + 1,
                    get |-> NoGet]
          /\ objects' = IF o.res = "Ok"
                        THEN [objects EXCEPT ![ToHex(hash_claim)] = o.stored]
                        ELSE objects
          /\ UNCHANGED <<decVars, dbVars>>

(* one call of retrieve_blob *)
Retrieve_Blob ==
    /\ \E content_hash \in HashClaims :
         \E o \in RetrieveBlob(objects, content_hash) :
           st' = [st EXCEPT !.get = [hash |-> content_hash, res |-> o.res,
                                     cause |-> o.cause, body |-> o.body]]
    /\ UNCHANGED <<objects, decVars, dbVars>>

NextStore ==
    \/ Store_Blob
    \/ Store_Blob_Err
    \/ Retrieve_Blob

SpecStore == InitStore /\ [][NextStore]_vars

----------------------------------------------------------------------------
(* Upload requests: WithBlob::persist followed by the persist of its
   metadata (put_blob -> BlobInsert::persist, put -> EvalInsert::persist) *)

(* the blobs uploaded by the requests and the lengths they declare *)
UploadBlobs == { <<XByte>> }
DeclaredLens(b) == { Len(b), Len(b) + 1 }

DbPcs == {"blob_stmt", "blob_ins", "eval_stmt", "eval_ins", "commit"}

Busy(r) == reqs[r].pc \notin {"idle", "done"}

Init ==
    /\ DecoderIdle
    /\ StoreIdle
    /\ DbIdle

(* drop of an uncommitted sqlx Transaction: its rows are rolled back *)
Rollback(rows, c) == { x \in rows : x.committed \/ x.by # c }

Finish(r, res, ret) ==
    reqs' = [reqs EXCEPT ![r] =
                [@ EXCEPT !.pc = "done", !.res = res, !.ret = ret,
                          !.s = {}, !.blob_id = None]]

(* a request arrives (handlers put_blob and put) and is given to the first
   free task; the owners being interchangeable, the first request is the
   one of the first API key *)
Start(r) ==
    /\ ~Busy(r)
    /\ \A q \in Slots : q < r => Busy(q)
    /\ ncalls < MaxCalls
    /\ ncalls' = ncalls + 1
    /\ \E kind \in {"put_blob", "put_eval"}, api_key \in ApiKeys,
          hash_claim \in HashClaims, fn_key \in FnKeys, fn_hash \in FnHashes,
          args_hash \in ArgsHashes :
          /\ kind = "put_blob" => args_hash = "a1"
          /\ ncalls = 0 => api_key = "k1"
          /\ reqs' = [reqs EXCEPT ![r] =
                [NoReq EXCEPT !.call = ncalls + 1, !.kind = kind, !.pc = "store",
                              !.auth = "ApiKey",
                              !.api_key = api_key,
                              !.content_hash = ToHex(hash_claim),
                              !.fn_key = IF kind = "put_eval" THEN fn_key ELSE "",
                              !.fn_hash = IF kind = "put_eval" THEN fn_hash ELSE "",
                              !.args_hash = IF kind = "put_eval" THEN args_hash ELSE ""]]
    /\ UNCHANGED <<decVars, storeVars, blobs, evals>>

(* WithBlob::persist: Hash::from_hex(hash_hex)?, then
   store_blob(payload, hash, content_length).await? *)
Upload_Store(r) ==
    /\ reqs[r].pc = "store"
    /\ LET hash_claim == FromHex(reqs[r].content_hash)
       IN  \E b \in UploadBlobs :
             \E cs \in PayloadItems(b), content_length \in DeclaredLens(b) :
               \E o \in StoreBlob(OkItems(cs), hash_claim, content_length) :
                 /\ objects' = IF o.res = "Ok"
                               THEN [objects EXCEPT ![ToHex(hash_claim)] = o.stored]
                               ELSE objects
                 /\ reqs' = [reqs EXCEPT ![r] =
                       [@ EXCEPT !.pc = AfterStore(o.res),
                                 !.stored = o.res,
                                 !.res = IF AfterStore(o.res) = "done" THEN o.res ELSE ""]]
    /\ UNCHANGED <<decVars, st, blobs, evals, ncalls>>

(* EvalInsert::persist / BlobInsert::persist: the api key is taken from the
   auth and, for an eval, the transaction begins *)
Persist_Begin(r) ==
    /\ reqs[r].pc = "persist"
    /\ IF reqs[r].auth # "ApiKey"
       THEN Finish(r, "Unauthorized", None)
       ELSE reqs' = [reqs EXCEPT ![r] =
          [@ EXCEPT !.pc = "blob_stmt",
                    !.peer = IF \E q \in Slots \ {r} : reqs[q].pc \in DbPcs
                             THEN reqs[CHOOSE q \in Slots \ {r} : reqs[q].pc \in DbPcs].call
                             ELSE 0]]
    /\ UNCHANGED <<decVars, storeVars, blobs, evals, ncalls>>

(* the blob statement starts: its snapshot fixes the rows of CTE s *)
Blob_Select(r) ==
    /\ reqs[r].pc = "blob_stmt"
    /\ reqs' = [reqs EXCEPT ![r] =
          [@ EXCEPT !.pc = "blob_ins",
                    !.s = BlobSelect(blobs, reqs[r].call, reqs[r].api_key,
                                     reqs[r].content_hash)]]
    /\ UNCHANGED <<decVars, storeVars, blobs, evals, ncalls>>

(* CTE i of the blob statement and fetch_one on the union *)
Blob_Insert(r) ==
    /\ reqs[r].pc = "blob_ins"
    /\ LET q == reqs[r]
           user_id == UserFromKey(q.api_key)
           conflicting == IF BlobsUnique
                          THEN { x \in blobs : SameBlobKey(x, user_id, q.content_hash) }
                          ELSE {}
           id == NextId(blobs)
           i == IF conflicting = {} THEN {id} ELSE {}
           row == [id |-> id, user_id |-> user_id, content_hash |-> q.content_hash,
                   by |-> q.call, kind |-> q.kind, stored |-> q.stored,
                   committed |-> ~InTx(q.kind)]
           got == FetchOne(i, q.s)
       IN  /\ ~MustWait(conflicting, q.call)
           /\ IF UserIdNotNull /\ user_id = 0
              THEN /\ blobs' = Rollback(blobs, q.call)
                   /\ evals' = Rollback(evals, q.call)
                   /\ Finish(r, "Sqlx", None)
              ELSE IF got = None
              THEN /\ blobs' = Rollback(blobs, q.call)
                   /\ evals' = Rollback(evals, q.call)
                   /\ Finish(r, "RowNotFound", None)
              ELSE /\ blobs' = IF i # {} THEN blobs \cup {row} ELSE blobs
                   /\ evals' = evals
                   /\ IF q.kind = "put_blob"
                      THEN Finish(r, "Ok", got)
                      ELSE /\ reqs' = [reqs EXCEPT ![r] =
                                 [@ EXCEPT !.pc = "eval_stmt", !.blob_id = got]]
    /\ UNCHANGED <<decVars, storeVars, ncalls>>

(* the eval statement starts *)
Eval_Select(r) ==
    /\ reqs[r].pc = "eval_stmt"
    /\ reqs' = [reqs EXCEPT ![r] =
          [@ EXCEPT !.pc = "eval_ins",
                    !.s = EvalSelect(evals, reqs[r].call, reqs[r].api_key,
                                     reqs[r].fn_key, reqs[r].fn_hash, reqs[r].args_hash)]]
    /\ UNCHANGED <<decVars, storeVars, blobs, evals, ncalls>>

(* CTE i of the eval statement and fetch_one on the union *)
InsertEval_Replace(rows, row) ==
    { x \in rows : ~SameEvalKey(x, row.user_id, row.fn_key, row.fn_hash, row.args_hash) }
        \cup {row}

(* INSERT INTO evals (...) VALUES (...): the new row is added, no row is
   updated *)
InsertEval(rows, row) == rows \cup {row}

Eval_Insert(r) ==
    /\ reqs[r].pc = "eval_ins"
    /\ LET q == reqs[r]
           user_id == UserFromKey(q.api_key)
           conflicting == IF EvalsUnique
                          THEN { x \in evals : SameEvalKey(x, user_id, q.fn_key,
                                                          q.fn_hash, q.args_hash) }
                          ELSE {}
           id == NextId(evals)
           i == IF conflicting = {} THEN {id} ELSE {}
           row == [id |-> id, user_id |-> user_id, fn_key |-> q.fn_key,
                   fn_hash |-> q.fn_hash, args_hash |-> q.args_hash,
                   is_experiment |-> q.is_experiment, accesses |-> 0,
                   blob_id |-> q.blob_id[1], by |-> q.call, kind |-> q.kind,
                   stored |-> q.stored, committed |-> FALSE]
           got == FetchOne(i, q.s)
       IN  /\ ~MustWait(conflicting, q.call)
           /\ IF got = None
              THEN /\ blobs' = Rollback(blobs, q.call)
                   /\ evals' = Rollback(evals, q.call)
                   /\ Finish(r, "RowNotFound", None)
              ELSE /\ evals' = IF i # {} THEN InsertEval(evals, row) ELSE evals
                   /\ blobs' = blobs
                   /\ reqs' = [reqs EXCEPT ![r] = [@ EXCEPT !.pc = "commit", !.ret = got]]
    /\ UNCHANGED <<decVars, storeVars, ncalls>>

Committed(rows, c) == { IF x.by = c THEN [x EXCEPT !.committed = TRUE] ELSE x : x \in rows }

(* tx.commit().await? succeeds *)
Commit(r) ==
    /\ reqs[r].pc = "commit"
    /\ blobs' = Committed(blobs, reqs[r].call)
    /\ evals' = Committed(evals, reqs[r].call)
    /\ Finish(r, "Ok", reqs[r].ret)
    /\ UNCHANGED <<decVars, storeVars, ncalls>>

(* tx.commit().await? fails: the error is returned and the transaction is
   dropped *)
Commit_Fail(r) ==
    /\ reqs[r].pc = "commit"
    /\ blobs' = Rollback(blobs, reqs[r].call)
    /\ evals' = Rollback(evals, reqs[r].call)
    /\ Finish(r, "SqlxCommit", None)
    /\ UNCHANGED <<decVars, storeVars, ncalls>>

(* begin or a statement fails in the database: the error is returned with ?
   and the transaction is dropped *)
Db_Fail(r) ==
    /\ reqs[r].pc \in DbPcs \ {"commit"}
    /\ blobs' = Rollback(blobs, reqs[r].call)
    /\ evals' = Rollback(evals, reqs[r].call)
    /\ Finish(r, "Sqlx", None)
    /\ UNCHANGED <<decVars, storeVars, ncalls>>

(* the request task is dropped at an await point (client disconnect) *)
Cancel(r) ==
    /\ Busy(r)
    /\ blobs' = Rollback(blobs, reqs[r].call)
    /\ evals' = Rollback(evals, reqs[r].call)
    /\ Finish(r, "Cancelled", None)
    /\ UNCHANGED <<decVars, storeVars, ncalls>>

Next ==
    \E r \in Slots :
        \/ Start(r)
        \/ Upload_Store(r)
        \/ Persist_Begin(r)
        \/ Blob_Select(r)
        \/ Blob_Insert(r)
        \/ Eval_Select(r)
        \/ Eval_Insert(r)
        \/ Commit(r)
        \/ Commit_Fail(r)
        \/ Db_Fail(r)
        \/ Cancel(r)

Spec == Init /\ [][Next]_vars

(* put on the evals of one owner, whose metadata carries either value of
   is_experiment *)
Start_Eval(r) ==
    /\ ~Busy(r)
    /\ \A q \in Slots : q < r => Busy(q)
    /\ ncalls < MaxCalls
    /\ ncalls' = ncalls + 1
    /\ \E hash_claim \in HashClaims, fn_key \in FnKeys, fn_hash \in FnHashes,
          args_hash \in ArgsHashes, is_experiment \in BOOLEAN :
          reqs' = [reqs EXCEPT ![r] =
                [NoReq EXCEPT !.call = ncalls + 1, !.kind = "put_eval", !.pc = "store",
                              !.auth = "ApiKey",
                              !.api_key = "k1",
                              !.content_hash = ToHex(hash_claim),
                              !.fn_key = fn_key,
                              !.fn_hash = fn_hash,
                              !.args_hash = args_hash,
                              !.is_experiment = is_experiment]]
    /\ UNCHANGED <<decVars, storeVars, blobs, evals>>

NextExp ==
    \E r \in Slots :
        \/ Start_Eval(r)
        \/ Upload_Store(r)
        \/ Persist_Begin(r)
        \/ Blob_Select(r)
        \/ Blob_Insert(r)
        \/ Eval_Select(r)
        \/ Eval_Insert(r)
        \/ Commit(r)
        \/ Commit_Fail(r)
        \/ Db_Fail(r)
        \/ Cancel(r)

SpecExp == Init /\ [][NextExp]_vars

(* Upload requests whose credential resolves to no owner *)
Credentials == {"absent", "Jwt", "bad"}

(* handlers put_blob and put on a request whose Authorization header is
   absent, is a verified JWT, or is an API key without owner: the Auth
   extractor fails on an absent header, put narrows with
   allow_only_api_key before persist, put_blob calls persist at once *)
Start_Unresolved(r) ==
    /\ ~Busy(r)
    /\ \A q \in Slots : q < r => Busy(q)
    /\ ncalls < MaxCalls
    /\ ncalls' = ncalls + 1
    /\ \E kind \in {"put_blob", "put_eval"}, cred \in Credentials,
          hash_claim \in HashClaims :
          LET q == [NoReq EXCEPT !.call = ncalls + 1, !.kind = kind,
                                 !.auth = IF cred = "bad" THEN "ApiKey" ELSE cred,
                                 !.api_key = IF cred = "bad" THEN "bad" ELSE "",
                                 !.content_hash = ToHex(hash_claim),
                                 !.fn_key = IF kind = "put_eval" THEN "f" ELSE "",
                                 !.fn_hash = IF kind = "put_eval" THEN "h1" ELSE "",
                                 !.args_hash = IF kind = "put_eval" THEN "a1" ELSE ""]
          IN  reqs' = [reqs EXCEPT ![r] =
                 IF cred = "absent"
                 THEN [q EXCEPT !.pc = "done", !.res = "Unauthorized"]
                 ELSE IF cred = "Jwt" /\ kind = "put_eval"
                 THEN [q EXCEPT !.pc = "done", !.res = "Forbidden"]
                 ELSE [q EXCEPT !.pc = "store"]]
    /\ UNCHANGED <<decVars, storeVars, blobs, evals>>

NextAuth ==
    \/ Next
    \/ \E r \in Slots : Start_Unresolved(r)

SpecAuth == Init /\ [][NextAuth]_vars

----------------------------------------------------------------------------
(* Read requests: the blob GET query (<Path<BlobParams> as Query>::fetch)
   on the rows and objects that earlier uploads left *)

(* the Authorization headers of read requests: API keys, one of which
   resolves to no owner, and a verified JWT *)
ReadKeys == ApiKeys \cup {"bad"}

Auths ==
    { [form |-> "ApiKey", key |-> k] : k \in ReadKeys } \cup { [form |-> "Jwt", key |-> ""] }

(* Auth::api_key *)
ApiKeyOf(auth) == IF auth.form = "ApiKey" THEN Some(auth.key) ELSE None

(* the content_hash path parameters: the keys of the objects and a string
   that is no hex digest *)
HashParams == ObjectKeys \cup { <<0>> }

(* Hash::from_hex succeeds *)
ValidHex(d) == Len(d) = HexDigits /\ \A i \in 1..Len(d) : d[i] \in 0..15

BlobCount_AnyOwner(rows, content_hash, api_key) ==
    Cardinality({ x \in Visible(rows, 0) : x.content_hash = content_hash })

(* SELECT count(id) FROM blobs WHERE content_hash = $1
   AND user_id = user_from_key($2): a NULL owner equals no user_id *)
BlobCount(rows, content_hash, api_key) ==
    Cardinality({ x \in Visible(rows, 0) :
                    /\ x.content_hash = content_hash
                    /\ UserFromKey(api_key) # 0
                    /\ x.user_id = UserFromKey(api_key) })

(* the blob rows committed by earlier uploads: any set of (owner, hash) pairs *)
Owners == { UserFromKey(k) : k \in ApiKeys }

BlobRowOf(u, k) ==
    [id |-> 2 * u + (IF k = ToHex(Blake3(<<XByte>>)) THEN 0 ELSE 1),
     user_id |-> u, content_hash |-> k,
     by |-> 0, kind |-> "put_blob", stored |-> "Ok", committed |-> TRUE]

BlobTables == { { BlobRowOf(p[1], p[2]) : p \in ps } : ps \in SUBSET (Owners \X ObjectKeys) }

(* the object a verified upload leaves under the key k *)
ObjectOf(k) == Some(<<CHOOSE c \in PayloadBytes : ToHex(Blake3(<<c>>)) = k>>)

(* every blob row was inserted after its object was stored; an object may
   exist without a row *)
InitRead ==
    /\ DecoderIdle
    /\ st = NoCall
    /\ evals = {}
    /\ reqs = [r \in Slots |-> NoReq]
    /\ ncalls = 0
    /\ blobs \in BlobTables
    /\ objects \in [ObjectKeys -> {None} \cup { ObjectOf(k) : k \in ObjectKeys }]
    /\ \A k \in ObjectKeys :
          /\ objects[k] \in {None, ObjectOf(k)}
          /\ (\E x \in blobs : x.content_hash = k) => objects[k] # None

(* get_blob: the request arrives and fetch runs up to the count query *)
Get_Blob(r) ==
    /\ reqs[r].pc = "idle"
    /\ \A q \in Slots : q < r => reqs[q].pc # "idle"
    /\ ncalls' = ncalls + 1
    /\ \E auth \in Auths, content_hash \in HashParams, db_ok \in BOOLEAN :
          LET api_key == ApiKeyOf(auth)
              q == [NoReq EXCEPT !.call = ncalls + 1, !.kind = "get_blob",
                                 !.auth = auth.form, !.api_key = auth.key,
                                 !.content_hash = content_hash]
              res == IF api_key = None THEN "Unauthorized"
                     ELSE IF ~ValidHex(content_hash) THEN "InvalidHash"
                     ELSE IF ~db_ok THEN "Sqlx"
                     ELSE IF BlobCount(blobs, content_hash, api_key[1]) # 1
                          THEN "Unauthorized"
                     ELSE ""
          IN  reqs' = [reqs EXCEPT ![r] =
                 IF res = "" THEN [q EXCEPT !.pc = "get_s3"]
                 ELSE [q EXCEPT !.pc = "done", !.res = res]]
    /\ UNCHANGED <<decVars, storeVars, blobs, evals>>

(* fetch: state.s3_store.retrieve_blob(hash).await?, then the response *)
Get_Blob_Retrieve(r) ==
    /\ reqs[r].pc = "get_s3"
    /\ \E o \in RetrieveBlob(objects, FromHex(reqs[r].content_hash)) :
          reqs' = [reqs EXCEPT ![r] =
             [@ EXCEPT !.pc = "done", !.contacted = TRUE, !.res = o.res, !.ret = o.body]]
    /\ UNCHANGED <<decVars, storeVars, blobs, evals, ncalls>>

(* head_blob: <Path<BlobParamsHead> as Query>::fetch, the same checks and
   count query, no call of the store *)
Head_Blob(r) ==
    /\ reqs[r].pc = "idle"
    /\ \A q \in Slots : q < r => reqs[q].pc # "idle"
    /\ ncalls' = ncalls + 1
    /\ \E auth \in Auths, content_hash \in HashParams, db_ok \in BOOLEAN :
          LET api_key == ApiKeyOf(auth)
              q == [NoReq EXCEPT !.call = ncalls + 1, !.kind = "head_blob",
                                 !.auth = auth.form, !.api_key = auth.key,
                                 !.content_hash = content_hash]
              res == IF api_key = None THEN "Unauthorized"
                     ELSE IF ~ValidHex(content_hash) THEN "InvalidHash"
                     ELSE IF ~db_ok THEN "Sqlx"
                     ELSE IF BlobCount(blobs, content_hash, api_key[1]) # 1
                          THEN "NotFound"
                     ELSE "Ok"
          IN  reqs' = [reqs EXCEPT ![r] = [q EXCEPT !.pc = "done", !.res = res]]
    /\ UNCHANGED <<decVars, storeVars, blobs, evals>>

NextRead ==
    \E r \in Slots :
        \/ Get_Blob(r)
        \/ Get_Blob_Retrieve(r)
        \/ Head_Blob(r)

SpecRead == InitRead /\ [][NextRead]_vars

----------------------------------------------------------------------------
(* Read requests: the eval query (<web::Query<Params> as Query>::fetch) on
   the rows that earlier uploads left *)

(* get_user_id(jwt_sub, api_key): the subject of the JWT, else the owner of
   the API key, NULL (0) when there is none *)
GetUserId(sub, api_key) ==
    IF sub # None THEN sub[1]
    ELSE IF api_key # None THEN UserFromKey(api_key[1])
    ELSE 0

Opt(S) == {None} \cup { Some(x) : x \in S }

(* the query parameters: each filter absent or present *)
ParamSets ==
    [fn_key : Opt({"f"}), fn_hash : Opt({"h1"}), args_hash : Opt({"a1"}),
     is_experiment : Opt(BOOLEAN), poll : Opt(BOOLEAN)]

EvalWhere_AnyOwner(e, p, user_id) ==
    /\ (p.fn_key = None \/ e.fn_key = p.fn_key[1])
    /\ (p.fn_hash = None \/ e.fn_hash = p.fn_hash[1])
    /\ (p.args_hash = None \/ e.args_hash = p.args_hash[1])
    /\ (p.is_experiment = None \/ e.is_experiment = p.is_experiment[1])

(* WHERE (fn_key = $1 OR $1 IS NULL) AND (fn_hash = $2 OR $2 IS NULL)
   AND (args_hash = $3 OR $3 IS NULL) AND (is_experiment = $4 OR $4 IS NULL)
   AND e.user_id = get_user_id($5, $6) *)
EvalWhere(e, p, user_id) ==
    /\ (p.fn_key = None \/ e.fn_key = p.fn_key[1])
    /\ (p.fn_hash = None \/ e.fn_hash = p.fn_hash[1])
    /\ (p.args_hash = None \/ e.args_hash = p.args_hash[1])
    /\ (p.is_experiment = None \/ e.is_experiment = p.is_experiment[1])
    /\ user_id # 0
    /\ e.user_id = user_id

PollUpdate_Owner(rows, p, user_id) ==
    { IF x.committed /\ x.user_id = user_id
      THEN [x EXCEPT !.accesses = @ + 1] ELSE x : x \in rows }

(* UPDATE evals e SET accesses = accesses + 1 WHERE ...: one statement *)
PollUpdate(rows, p, user_id) ==
    { IF x.committed /\ EvalWhere(x, p, user_id)
      THEN [x EXCEPT !.accesses = @ + 1] ELSE x : x \in rows }

(* SELECT ... FROM evals e JOIN blobs b ON b.id = e.blob_id WHERE ... *)
EvalSelectWhere(erows, brows, p, user_id) ==
    { e \in Visible(erows, 0) :
        /\ \E b \in Visible(brows, 0) : b.id = e.blob_id
        /\ EvalWhere(e, p, user_id) }

(* the eval rows committed by earlier uploads: for each owner, the rows of
   function f over both args hashes and both is_experiment values, and a row
   of another function g *)
EvalRowOf(id, u, fn_key, fn_hash, args_hash, is_experiment) ==
    [id |-> id, user_id |-> u, fn_key |-> fn_key, fn_hash |-> fn_hash,
     args_hash |-> args_hash, is_experiment |-> is_experiment, accesses |-> 0,
     blob_id |-> 2 * u, by |-> 0, kind |-> "put_eval", stored |-> "Ok",
     committed |-> TRUE]

EvalsOf(u) ==
    { EvalRowOf(10 * u + 1, u, "f", "h1", "a1", FALSE),
      EvalRowOf(10 * u + 2, u, "f", "h1", "a1", TRUE),
      EvalRowOf(10 * u + 3, u, "f", "h1", "a2", FALSE),
      EvalRowOf(10 * u + 4, u, "g", "h2", "a1", FALSE) }

EvalTable == UNION { EvalsOf(u) : u \in Owners }

InitQuery ==
    /\ DecoderIdle
    /\ st = NoCall
    /\ reqs = [r \in Slots |-> NoReq]
    /\ ncalls = 0
    /\ blobs = { BlobRowOf(u, ToHex(Blake3(<<XByte>>))) : u \in Owners }
    /\ objects = [k \in ObjectKeys |->
                    IF k = ToHex(Blake3(<<XByte>>)) THEN ObjectOf(k) ELSE None]
    /\ evals = EvalTable

(* get_by_params: the Auth extractor, allow_only_api_key, then fetch up to
   and including the UPDATE of poll mode; the owners being interchangeable
   and a key without owner matching no row, the first request that carries
   an API key carries the first one *)
Get_By_Params(r) ==
    /\ reqs[r].pc = "idle"
    /\ \A q \in Slots : q < r => reqs[q].pc # "idle"
    /\ ncalls' = ncalls + 1
    /\ \E cred \in {None} \cup { Some(a) : a \in Auths }, p \in ParamSets, db_ok \in BOOLEAN :
          /\ (r = 1 /\ cred # None) => cred[1].key \in {"", "k1"}
          /\ LET q == [NoReq EXCEPT !.call = ncalls + 1, !.kind = "get_evals"] IN
              IF cred = None
              THEN /\ reqs' = [reqs EXCEPT ![r] = [q EXCEPT !.pc = "done", !.res = "Unauthorized"]]
                   /\ evals' = evals
              ELSE IF cred[1].form # "ApiKey"
              THEN /\ reqs' = [reqs EXCEPT ![r] =
                          [q EXCEPT !.pc = "done", !.res = "Forbidden", !.auth = cred[1].form]]
                   /\ evals' = evals
              ELSE LET qa == [q EXCEPT !.auth = "ApiKey", !.api_key = cred[1].key,
                                       !.params = Some(p)]
                       user_id == GetUserId(None, ApiKeyOf(cred[1]))
                   IN  IF p.poll # Some(TRUE)
                       THEN /\ reqs' = [reqs EXCEPT ![r] = [qa EXCEPT !.pc = "select"]]
                            /\ evals' = evals
                       ELSE IF ~db_ok
                       THEN /\ reqs' = [reqs EXCEPT ![r] = [qa EXCEPT !.pc = "done", !.res = "Sqlx"]]
                            /\ evals' = evals
                       ELSE /\ reqs' = [reqs EXCEPT ![r] =
                                   [qa EXCEPT !.pc = "select", !.polled = TRUE]]
                            /\ evals' = PollUpdate(evals, p, user_id)
    /\ UNCHANGED <<decVars, storeVars, blobs>>

(* fetch: the SELECT and the response *)
Query_Select(r) ==
    /\ reqs[r].pc = "select"
    /\ \E db_ok \in BOOLEAN :
          LET q == reqs[r]
              user_id == GetUserId(None, Some(q.api_key))
          IN  reqs' = [reqs EXCEPT ![r] =
                 IF db_ok
                 THEN [q EXCEPT !.pc = "done", !.res = "Ok",
                                !.rows = EvalSelectWhere(evals, blobs, q.params[1], user_id)]
                 ELSE [q EXCEPT !.pc = "done", !.res = "Sqlx"]]
    /\ UNCHANGED <<decVars, storeVars, blobs, evals, ncalls>>

NextQuery ==
    \E r \in Slots :
        \/ Get_By_Params(r)
        \/ Query_Select(r)

SpecQuery == InitQuery /\ [][NextQuery]_vars

----------------------------------------------------------------------------
(* The Auth extractor (middlewares/auth.rs) on the Authorization header *)

MaxHeaderLen == 4

(* a header string is a sequence of pieces: the word "Bearer", a space, a
   token that verifies ("v"), a token whose signature is right and whose
   expiry has passed ("e"), and any other text ("x") *)
HeaderPieces == {"Bearer", " ", "v", "e", "x"}

HeaderValues == SeqsUpTo(HeaderPieces, MaxHeaderLen)

(* req.headers().get("Authorization"): no header, a header that to_str
   rejects, or a string *)
HeaderInputs ==
    { [state |-> "absent", value |-> <<>>], [state |-> "opaque", value |-> <<>>] }
        \cup { [state |-> "str", value |-> v] : v \in HeaderValues }

(* s.starts_with("Bearer ") *)
StartsWithBearer(s) == Len(s) >= 2 /\ s[1] = "Bearer" /\ s[2] = " "

(* s.split("Bearer").collect::<Vec<&str>>() *)
RECURSIVE SplitBearer(_)
SplitBearer(s) ==
    IF \E i \in 1..Len(s) : s[i] = "Bearer"
    THEN LET i == SetMin({ j \in 1..Len(s) : s[j] = "Bearer" })
         IN  <<Take(s, i - 1)>> \o SplitBearer(Drop(s, i))
    ELSE <<s>>

(* str::trim *)
RECURSIVE Trim(_)
Trim(w) ==
    IF w # <<>> /\ w[1] = " " THEN Trim(Drop(w, 1))
    ELSE IF w # <<>> /\ w[Len(w)] = " " THEN Trim(Take(w, Len(w) - 1))
    ELSE w

(* jsonwebtoken::decode::<Claims>(token, key, Validation::new(HS256)) *)
Decode(token) ==
    IF token = <<"v">> THEN [ok |-> TRUE, claims |-> [sub |-> 1], cause |-> ""]
    ELSE IF token = <<"e">> THEN [ok |-> FALSE, claims |-> None, cause |-> "ExpiredSignature"]
    ELSE IF token = <<"x">> THEN [ok |-> FALSE, claims |-> None, cause |-> "InvalidSignature"]
    ELSE [ok |-> FALSE, claims |-> None, cause |-> "InvalidToken"]

AuthErr(err, cause) ==
    [ok |-> FALSE, form |-> "", key |-> <<>>, claims |-> None, err |-> err, cause |-> cause]

FromApiKey_Trim(s) ==
    [ok |-> TRUE, form |-> "ApiKey", key |-> Trim(s), claims |-> None, err |-> "", cause |-> ""]

(* Auth::from_api_key *)
FromApiKey(s) ==
    [ok |-> TRUE, form |-> "ApiKey", key |-> s, claims |-> None, err |-> "", cause |-> ""]

(* the token of from_jwt: the second piece of the split, trimmed; None when
   the split has one piece *)
TokenOf(s) ==
    LET words == SplitBearer(s) IN
    IF Len(words) < 2 THEN None ELSE Some(Trim(words[2]))

FromJwt_Fallback(s) ==
    IF TokenOf(s) = None THEN AuthErr("InvalidAuthHeader", "")
    ELSE LET d == Decode(TokenOf(s)[1]) IN
         IF d.ok
         THEN [ok |-> TRUE, form |-> "Jwt", key |-> <<>>, claims |-> Some(d.claims),
               err |-> "", cause |-> ""]
         ELSE FromApiKey(s)

(* Auth::from_jwt *)
FromJwt(s) ==
    IF TokenOf(s) = None THEN AuthErr("InvalidAuthHeader", "")
    ELSE LET d == Decode(TokenOf(s)[1]) IN
         IF d.ok
         THEN [ok |-> TRUE, form |-> "Jwt", key |-> <<>>, claims |-> Some(d.claims),
               err |-> "", cause |-> ""]
         ELSE AuthErr("InvalidJwt", d.cause)

(* Auth::from_str *)
FromStr(s) == IF StartsWithBearer(s) THEN FromJwt(s) ELSE FromApiKey(s)

(* <Auth as FromRequest>::from_request *)
AuthFromRequest(h) ==
    IF h.state # "str" THEN AuthErr("NoAuthHeader", "") ELSE FromStr(h.value)

(* From<AuthError> for actix_web::Error: status and body *)
ErrorResponse(e) ==
    IF e.err = "NoAuthHeader"
    THEN [status |-> "Unauthorized", body |-> "No Authorization header present on request"]
    ELSE IF e.err = "InvalidAuthHeader"
    THEN [status |-> "Unauthorized", body |-> "Invalid Authorization header"]
    ELSE [status |-> "Forbidden", body |-> "Invalid JWT provided"]

(* Auth::jwt *)
JwtOf(auth) == IF auth.form = "Jwt" THEN auth.claims ELSE None

AllowOnlyApiKey_Any(auth) ==
    [ok |-> TRUE, val |-> auth.key, status |-> "", expected |-> ""]

(* Auth::allow_only_api_key *)
AllowOnlyApiKey(auth) ==
    IF auth.form = "Jwt"
    THEN [ok |-> FALSE, val |-> <<>>, status |-> "Forbidden", expected |-> "API key"]
    ELSE [ok |-> TRUE, val |-> auth.key, status |-> "", expected |-> ""]

(* Auth::allow_only_jwt *)
AllowOnlyJwt(auth) ==
    IF auth.form = "Jwt"
    THEN [ok |-> TRUE, val |-> auth.claims[1], status |-> "", expected |-> ""]
    ELSE [ok |-> FALSE, val |-> <<>>, status |-> "Forbidden", expected |-> "JWT"]

(* a request arrived with some Authorization header *)
InitHeader ==
    /\ DecoderIdle
    /\ StoreIdle
    /\ blobs = {}
    /\ evals = {}
    /\ ncalls = 0
    /\ \E h \in HeaderInputs :
          reqs = [r \in Slots |->
                    IF r = 1 THEN [NoReq EXCEPT !.kind = "auth", !.header = Some(h)]
                    ELSE NoReq]

(* the Auth extractor runs *)
From_Request(r) ==
    /\ reqs[r].kind = "auth" /\ reqs[r].pc = "idle"
    /\ LET a == AuthFromRequest(reqs[r].header[1]) IN
       reqs' = [reqs EXCEPT ![r] =
          [@ EXCEPT !.extracted = Some(a),
                    !.pc = IF a.ok THEN "auth" ELSE "done",
                    !.res = IF a.ok THEN "" ELSE ErrorResponse(a).status]]
    /\ UNCHANGED <<decVars, storeVars, blobs, evals, ncalls>>

(* a handler narrows the extracted Auth to the API-key form *)
Allow_Only_Api_Key(r) ==
    /\ reqs[r].pc = "auth" /\ reqs[r].only_api_key = None
    /\ reqs' = [reqs EXCEPT ![r] =
          [@ EXCEPT !.only_api_key = Some(AllowOnlyApiKey(reqs[r].extracted[1]))]]
    /\ UNCHANGED <<decVars, storeVars, blobs, evals, ncalls>>

(* a handler narrows the extracted Auth to the JWT form *)
Allow_Only_Jwt(r) ==
    /\ reqs[r].pc = "auth" /\ reqs[r].only_jwt = None
    /\ reqs' = [reqs EXCEPT ![r] =
          [@ EXCEPT !.only_jwt = Some(AllowOnlyJwt(reqs[r].extracted[1]))]]
    /\ UNCHANGED <<decVars, storeVars, blobs, evals, ncalls>>

NextHeader ==
    \E r \in Slots :
        \/ From_Request(r)
        \/ Allow_Only_Api_Key(r)
        \/ Allow_Only_Jwt(r)

SpecHeader == InitHeader /\ [][NextHeader]_vars

----------------------------------------------------------------------------
(* ApiKey::random (hitsave-api/src/models/api_key/mod.rs) *)

(* .take(64) *)
KeyTake == 64

(* the seeds ChaCha20Rng::from_entropy may draw *)
MaxSeed == 7

(* the characters of rand::distributions::Alphanumeric: a lower-case
   letter, an upper-case letter and a digit stand for the 62 of them *)
Alphanumeric == <<"a", "Z", "7">>

(* ApiKey::random was called and ChaCha20Rng::from_entropy() seeded the
   generator *)
InitKey ==
    /\ DecoderIdle
    /\ StoreIdle
    /\ blobs = {}
    /\ evals = {}
    /\ ncalls = 0
    /\ \E seed \in 0..MaxSeed :
          reqs = [r \in Slots |->
                    IF r = 1
                    THEN [NoReq EXCEPT !.kind = "random", !.pc = "sample",
                                       !.rng = Some([seed |-> seed, n |-> 0])]
                    ELSE NoReq]

(* one step of sample_iter(&Alphanumeric).take(64).map(char::from): the
   generator yields its next character, a function of the seed and of the
   number of characters drawn so far *)
Random_Sample(r) ==
    /\ reqs[r].pc = "sample"
    /\ Len(reqs[r].key) < KeyTake
    /\ LET g == reqs[r].rng[1]
           c == Alphanumeric[1 + ((g.seed + g.n * (g.seed + 1)) % Len(Alphanumeric))]
       IN  reqs' = [reqs EXCEPT ![r] =
              [@ EXCEPT !.key = Append(@, c),
                        !.rng = Some([g EXCEPT !.n = @ + 1])]]
    /\ UNCHANGED <<decVars, storeVars, blobs, evals, ncalls>>

(* take(64) is exhausted: collect() ends and Self { key } is returned *)
Random_Collect(r) ==
    /\ reqs[r].pc = "sample"
    /\ Len(reqs[r].key) = KeyTake
    /\ reqs' = [reqs EXCEPT ![r] = [@ EXCEPT !.pc = "done", !.res = "Ok"]]
    /\ UNCHANGED <<decVars, storeVars, blobs, evals, ncalls>>

NextKey ==
    \E r \in Slots :
        \/ Random_Sample(r)
        \/ Random_Collect(r)

SpecKey == InitKey /\ [][NextKey]_vars

----------------------------------------------------------------------------
(* Properties of the decoder *)

(* the run is over: the future resolved with an error, or it resolved with
   a WithBlob and the payload stream was drained to its end *)
DecodeDone == fut.res \notin {"Pending", "Ok"} \/ (fut.res = "Ok" /\ ended)

Outcome == [res |-> fut.res, meta |-> fut.meta, payload |-> Flatten(items)]

(* what the decoder and the payload stream yield when the whole body b is
   one chunk *)
OneChunkOutcome(b) ==
    LET f1 == PollChunk(FromRequest, b)
        f2 == IF f1.res = "Pending" THEN PollNone(f1) ELSE f1
    IN  [res |-> f2.res, meta |-> f2.meta,
         payload |-> IF f2.res = "Ok" THEN f2.init_bytes[1] ELSE <<>>]

DeclaredLen(b) == FromBeBytes(Take(b, 4))
MetaOf(b) == SubSeq(b, 5, 4 + DeclaredLen(b))
PayloadOf(b) == Drop(b, 4 + DeclaredLen(b))

(* what the wire format of the envelope b denotes *)
ExpectedOutcome(b) ==
    IF FromSlice(MetaOf(b)).ok
    THEN [res |-> "Ok", meta |-> FromSlice(MetaOf(b)).val, payload |-> PayloadOf(b)]
    ELSE [res |-> "Deserialize", meta |-> <<>>, payload |-> <<>>]

(* C1: for every envelope and every partition of its bytes into chunks, the
   decoder and the drained payload stream yield the same metadata and
   payload bytes as when the whole envelope is fed as one chunk. *)
C1_SameAsOneChunk == DecodeDone => Outcome = OneChunkOutcome(body)

(* the length prefix arrived split over two or more chunks *)
PrefixSplit == hist.first \in 1..3

(* C10: when the 4 length-prefix bytes arrive split over two or more chunks,
   an envelope with valid metadata and a payload decodes to exactly the
   metadata at body offset 4 and the payload after it. *)
C10_SplitPrefixDecodes ==
    (DecodeDone /\ PrefixSplit /\ FromSlice(MetaOf(body)).ok /\ PayloadOf(body) # <<>>)
        => Outcome = ExpectedOutcome(body)

(* the first chunk held the whole length prefix and at least 4 more bytes:
   the length was read from the first 4 bytes of the body and the bytes
   after them began the metadata *)
LengthFromFirstChunk == hist.first >= 8 /\ fut.metadata_len # None

(* bytes appended to metadata_buf by chunks that came after the length was
   known and did not complete the metadata (metadata_received counts the
   others) *)
AppendedLater == Len(fut.metadata_buf) - fut.metadata_received

(* C11: when the metadata is spread over several chunks received after the
   length is known, the decoder resolves on the chunk in which the count of
   metadata bytes reaches metadata_len, and the bytes it deserializes are
   exactly body[4 .. 4+metadata_len]. *)
C11_SpreadMetadataExact ==
    (LengthFromFirstChunk /\ AppendedLater > 0)
        => /\ fut.res = "Pending" => Len(fut.metadata_buf) < fut.metadata_len[1]
           /\ fut.res \in {"Ok", "Deserialize"} => fut.metadata_buf = MetaOf(body)

(* C12: whenever the decoder succeeds, the concatenation of all items of
   the payload stream is body[4+metadata_len ..]: no payload byte is absorbed
   into the metadata or dropped, whatever the chunk boundaries. *)
C12_PayloadComplete ==
    (fut.res = "Ok" /\ ended) => Flatten(items) = PayloadOf(body)

(* C13: for a body with valid metadata that ends exactly at the end of the
   metadata, the decoder succeeds for every chunking and the payload stream
   is a zero-length sequence followed by its end. *)
C13_EmptyPayloadDecodes ==
    (FromSlice(MetaOf(body)).ok /\ PayloadOf(body) = <<>>)
        => /\ fut.res \in {"Pending", "Ok"}
           /\ DecodeDone => Outcome = ExpectedOutcome(body)

(* the source ends after fewer than 4 + metadata_len bytes *)
Truncated == Len(body) < 4 \/ Len(body) < 4 + DeclaredLen(body)

(* C14: when the source ends after delivering fewer than 4+metadata_len
   bytes, the decoder resolves with UnexpectedEOF and never produces a
   WithBlob. *)
C14_TruncatedIsUnexpectedEOF ==
    Truncated => (fut.res \in {"Pending", "UnexpectedEOF"} /\ blob = None)

(* C15: an envelope whose length prefix is 0, for a schema with required
   fields, fails with a Deserialize error for every chunking and every
   payload length, the empty payload included. *)
C15_ZeroLengthMetadata ==
    (DeclaredLen(body) = 0 /\ fut.res # "Pending") => fut.res = "Deserialize"

(* C16: the payload stream yields the surplus bytes captured by the decoder
   exactly once and as its first item, then every later chunk of the source
   in order and unchanged, and ends exactly when the source ends. *)
C16_PayloadStreamOrder ==
    [][ /\ items' # items =>
            /\ blob # None
            /\ IF blob[1].init_bytes # None
               THEN /\ items = <<>>
                    /\ items' = <<fut.init_bytes[1]>>
                    /\ pos' = pos
                    /\ blob'[1].init_bytes = None
               ELSE /\ items # <<>>
                    /\ ~ended
                    /\ pos' > pos
                    /\ items' = Append(items, SubSeq(body, pos + 1, pos'))
        /\ (blob # None /\ pos' # pos) =>
               /\ blob[1].init_bytes = None
               /\ items' = Append(items, SubSeq(body, pos + 1, pos'))
        /\ ended' # ended =>
               /\ ended'
               /\ blob # None
               /\ blob[1].init_bytes = None
               /\ pos = Len(body)
      ]_vars

(* C16 witness: the stream yielded non-empty surplus bytes first, then a
   later chunk of the source, and ended *)
C16_Witness ==
    /\ ended
    /\ Len(items) >= 2
    /\ items[1] # <<>>
    /\ items[1] = fut.init_bytes[1]

(* C17: a poll that finds the source not ready returns Pending and keeps
   all accumulated state: after any chunk sequence the future is the same
   as when the source was always ready, wherever Pending polls occurred. *)
C17_PendingTransparent == fut = hist.ref

(* C17 witness: the source was not ready after the future had consumed a
   chunk, and the run then completed with a decoded envelope *)
C17_Witness ==
    /\ hist.pending >= 1
    /\ fut.res = "Ok"
    /\ ended

----------------------------------------------------------------------------
(* Properties of store_blob *)

Delivered == Flatten(st.items)

(* C2: store_blob returns success only if the digest of all bytes delivered
   by the payload stream equals the claimed hash, whatever the declared
   content_length and the chunking. *)
C2_OkOnlyIfDigestMatches ==
    (st.n > 0 /\ st.res = "Ok") => Blake3(Delivered) = st.hash_claim

(* C5: when the stream delivers exactly content_length bytes whose digest
   differs from the claimed hash, store_blob returns StoreError::InvalidHash. *)
C5_MismatchReturnsInvalidHash ==
    (st.n > 0 /\ ~st.err /\ Len(Delivered) = st.content_length
        /\ Blake3(Delivered) # st.hash_claim)
        => st.res = "InvalidHash"

(* C6: after an upload whose bytes do not hash to the claimed hash H, with
   no earlier object under hex(H), no object is readable under hex(H). *)
C6_NoObjectAfterMismatch ==
    (st.n > 0 /\ Blake3(Delivered) # st.hash_claim /\ st.prior = None)
        => objects[ToHex(st.hash_claim)] = None

(* C18: a successful store_blob followed by retrieve_blob with the same
   hash returns bytes identical to the uploaded ones, and the upload, also
   when the same bytes were uploaded before, leaves under the key hex(hash)
   one object with that content. *)
C18_RoundTrip ==
    (st.n > 0 /\ st.res = "Ok")
        => /\ objects[ToHex(st.hash_claim)] = Some(Delivered)
           /\ (st.get.res = "Ok" /\ st.get.hash = st.hash_claim)
                 => st.get.body = Some(Delivered)

(* C19: retrieve_blob for a hash under whose key the backend holds no object
   returns a NotFound error value, and a backend failure returns a transport
   error value. *)
C19_RetrieveErrors ==
    /\ st.get.cause = "NoSuchKey" => st.get.res = "NotFound"
    /\ st.get.cause = "Backend" => st.get.res = "S3"

----------------------------------------------------------------------------
(* Properties of the upload requests and the persisters *)

CommittedRows(rows) == { x \in rows : x.committed }

RowsOf(rows, c) == { x \in rows : x.by = c }

(* the call ended by itself: no database failure, backend failure or
   cancellation was injected *)
Undisturbed(q) == q.pc = "done" /\ q.res \in {"Ok", "RowNotFound"}

SameInput(q1, q2) ==
    /\ q1.kind = q2.kind
    /\ q1.api_key = q2.api_key
    /\ q1.content_hash = q2.content_hash
    /\ q1.fn_key = q2.fn_key
    /\ q1.fn_hash = q2.fn_hash
    /\ q1.args_hash = q2.args_hash

(* the persist calls of the two requests ran concurrently *)
Overlapped(q1, q2) == q1.peer = q2.call \/ q2.peer = q1.call

(* C3: two concurrent EvalInsert::persist calls with the same api key,
   content hash and eval key both return Ok with the same eval id, and the
   store then holds exactly one blob row and one eval row for those keys. *)
C3_ConcurrentIdenticalEvals ==
    \A r1 \in Slots, r2 \in Slots :
        LET q1 == reqs[r1]
            q2 == reqs[r2]
        IN  (/\ r1 # r2
             /\ q1.kind = "put_eval"
             /\ SameInput(q1, q2)
             /\ Overlapped(q1, q2)
             /\ Undisturbed(q1)
             /\ Undisturbed(q2))
            => /\ q1.res = "Ok"
               /\ q2.res = "Ok"
               /\ q1.ret = q2.ret
               /\ Cardinality({ x \in CommittedRows(blobs) :
                      SameBlobKey(x, UserFromKey(q1.api_key), q1.content_hash) }) = 1
               /\ Cardinality({ x \in CommittedRows(evals) :
                      SameEvalKey(x, UserFromKey(q1.api_key), q1.fn_key, q1.fn_hash,
                                  q1.args_hash) }) = 1

(* C4: a blob or eval row is written for a request only after its
   store_blob returned Ok; a request whose store_blob failed, or that was
   cancelled before store_blob returned, has no row. *)
C4_RowsOnlyAfterStoreOk ==
    /\ \A x \in blobs : x.stored = "Ok"
    /\ \A x \in evals : x.stored = "Ok"
    /\ \A r \in Slots :
          /\ reqs[r].pc \in DbPcs \cup {"persist"} => reqs[r].stored = "Ok"
          /\ (reqs[r].pc = "done" /\ reqs[r].stored # "Ok")
                => RowsOf(blobs, reqs[r].call) = {} /\ RowsOf(evals, reqs[r].call) = {}

(* C4 witness: one request ended with a failed store_blob and has no row,
   another stored its blob and has its blob row *)
C4_Witness ==
    \E r1 \in Slots, r2 \in Slots :
        /\ reqs[r1].pc = "done" /\ reqs[r1].stored = "S3"
        /\ reqs[r2].stored = "Ok" /\ RowsOf(blobs, reqs[r2].call) # {}

(* C7: the evals table holds at most one row per
   (owner, fn_key, fn_hash, args_hash). *)
C7_OneEvalPerKey ==
    \A e1 \in CommittedRows(evals), e2 \in CommittedRows(evals) :
        SameEvalKey(e1, e2.user_id, e2.fn_key, e2.fn_hash, e2.args_hash) => e1.id = e2.id

(* C8: the blobs table holds at most one row per (owner, content_hash) and
   every BlobInsert::persist call returns Ok with the id of the row of its
   pair, also when it runs concurrently with an identical call. *)
C8_BlobInsertOrFetch ==
    /\ \A b1 \in blobs, b2 \in blobs :
          SameBlobKey(b1, b2.user_id, b2.content_hash) => b1.id = b2.id
    /\ \A r \in Slots :
          (reqs[r].kind = "put_blob" /\ Undisturbed(reqs[r]))
            => /\ reqs[r].res = "Ok"
               /\ \E b \in CommittedRows(blobs) :
                     /\ SameBlobKey(b, UserFromKey(reqs[r].api_key), reqs[r].content_hash)
                     /\ reqs[r].ret = Some(b.id)

(* C9: EvalInsert::persist is atomic: the rows it inserts are invisible to
   other transactions until it commits both, a committed new blob row of
   the call always comes with the call's committed eval row, and after a
   failed call none of its rows exists. *)
C9_EvalInsertAtomic ==
    /\ \A b \in CommittedRows(blobs) :
          b.kind = "put_eval"
            => \E e \in CommittedRows(evals) : e.by = b.by /\ e.blob_id = b.id
    /\ \A e \in CommittedRows(evals) :
          \E b \in CommittedRows(blobs) : b.id = e.blob_id
    /\ \A r \in Slots :
          (reqs[r].kind = "put_eval" /\ reqs[r].res # "Ok")
            => /\ CommittedRows(RowsOf(blobs, reqs[r].call)) = {}
               /\ CommittedRows(RowsOf(evals, reqs[r].call)) = {}
               /\ reqs[r].pc = "done" =>
                     RowsOf(blobs, reqs[r].call) = {} /\ RowsOf(evals, reqs[r].call) = {}

(* C9 witness: an EvalInsert::persist call failed at its commit after it
   had inserted a new blob row and a new eval row, and no row is left *)
C9_Witness ==
    \E r \in Slots :
        /\ reqs[r].kind = "put_eval"
        /\ reqs[r].pc = "done"
        /\ reqs[r].res = "SqlxCommit"
        /\ blobs = {}
        /\ evals = {}

(* C25: insert-or-fetch never mutates existing data: every step of a
   persist leaves each committed blob row and each committed eval row as it
   was, in every column, also when the request carries the key of that row
   with different values. *)
C25_ExistingRowsUnchanged ==
    [][ /\ \A x \in CommittedRows(blobs) : x \in blobs'
        /\ \A x \in CommittedRows(evals) : x \in evals' ]_vars

(* an eval persist that carried is_experiment = true and another blob
   returned Ok while a committed row of the same eval key says false and
   references its own blob *)
C25_Witness ==
    \E r \in Slots :
        LET q == reqs[r] IN
        /\ q.kind = "put_eval" /\ q.pc = "done" /\ q.res = "Ok" /\ q.is_experiment
        /\ \E x \in CommittedRows(evals), y \in CommittedRows(evals) :
              /\ x.by # q.call /\ y.by = q.call
              /\ SameEvalKey(x, UserFromKey(q.api_key), q.fn_key, q.fn_hash, q.args_hash)
              /\ ~x.is_experiment
              /\ x.blob_id # y.blob_id

(* q2 is a successful eval persist that began after the successful eval
   persist q1 had returned, by the same owner for the same function and
   content hash and another args hash *)
SecondArgs(q1, q2) ==
    /\ q1.kind = "put_eval" /\ q1.pc = "done" /\ q1.res = "Ok"
    /\ q2.kind = "put_eval" /\ q2.pc = "done" /\ q2.res = "Ok"
    /\ q1.call < q2.call /\ ~Overlapped(q1, q2)
    /\ q1.api_key = q2.api_key
    /\ q1.fn_key = q2.fn_key /\ q1.fn_hash = q2.fn_hash
    /\ q1.args_hash # q2.args_hash
    /\ q1.content_hash = q2.content_hash

(* C26: after a successful persist for (owner, fn_key, fn_hash, a1) with
   content hash H, a persist by the same owner with the same fn_key and
   fn_hash, another args_hash and the same H returns a different eval id
   whose row references the same blob id, and there is one blob row for
   (owner, H). *)
C26_SecondArgsSharesBlob ==
    \A r1 \in Slots, r2 \in Slots :
        LET q1 == reqs[r1]
            q2 == reqs[r2]
        IN  SecondArgs(q1, q2)
              => /\ q1.ret # q2.ret
                 /\ \E x \in evals, y \in evals :
                       /\ x.id = q1.ret[1] /\ y.id = q2.ret[1]
                       /\ x.blob_id = y.blob_id
                 /\ Cardinality({ b \in blobs :
                        SameBlobKey(b, UserFromKey(q1.api_key), q1.content_hash) }) = 1

C26_Witness ==
    \E r1 \in Slots, r2 \in Slots : SecondArgs(reqs[r1], reqs[r2])

(* the blob rows the eval row of id i references *)
BlobsOfEval(i) ==
    { b \in blobs : \E x \in evals : x.id = i /\ x.blob_id = b.id }

(* C35: whenever an eval upload returns an eval id, the eval row with that
   id references a blob row of the same owner whose content_hash is the
   content hash of that upload, also when the eval key already had a row
   created by an earlier upload with another content hash. *)
C35_EvalReferencesItsBlob ==
    \A r \in Slots :
        LET q == reqs[r] IN
        (q.kind = "put_eval" /\ q.pc = "done" /\ q.res = "Ok")
          => /\ BlobsOfEval(q.ret[1]) # {}
             /\ \A b \in BlobsOfEval(q.ret[1]) :
                   /\ b.user_id = UserFromKey(q.api_key)
                   /\ b.content_hash = q.content_hash

(* an eval upload returned an id while an earlier row of the same eval key
   references a blob of another content hash *)
C35_Witness ==
    \E r \in Slots :
        LET q == reqs[r] IN
        /\ q.kind = "put_eval" /\ q.pc = "done" /\ q.res = "Ok"
        /\ \E x \in CommittedRows(evals) :
              /\ x.by < q.call
              /\ SameEvalKey(x, UserFromKey(q.api_key), q.fn_key, q.fn_hash, q.args_hash)
              /\ \E b \in blobs : b.id = x.blob_id /\ b.content_hash # q.content_hash

(* the request's credential is an API key that resolves to an owner *)
Resolves(q) == q.auth = "ApiKey" /\ UserFromKey(q.api_key) # 0

(* C21: an upload whose credential is absent, is not an API key or resolves
   to no owner fails with Unauthorized or Forbidden and writes no object to
   the backend and no row to the database. *)
C21_UnresolvedUploadWritesNothing ==
    \A r \in Slots :
        LET q == reqs[r] IN
        (q.kind \in {"put_blob", "put_eval"} /\ ~Resolves(q))
          => /\ q.stored # "Ok"
             /\ RowsOf(blobs, q.call) = {} /\ RowsOf(evals, q.call) = {}
             /\ (q.pc = "done" /\ q.res \notin {"S3", "Sqlx", "SqlxCommit", "Cancelled"})
                   => q.res \in {"Unauthorized", "Forbidden"}

----------------------------------------------------------------------------
(* Properties of the read requests *)

(* the request's credential is an API key whose owner has a committed blob
   row for the requested content hash *)
OwnsBlob(q) ==
    /\ q.auth = "ApiKey"
    /\ UserFromKey(q.api_key) # 0
    /\ \E x \in CommittedRows(blobs) :
          x.user_id = UserFromKey(q.api_key) /\ x.content_hash = q.content_hash

(* C20: the blob GET query returns the object's bytes only when the API key
   resolves to an owner who has a blob row for the requested hash; otherwise
   it returns Unauthorized without contacting the backend, so a tenant never
   reads a blob that only other tenants uploaded. *)
C20_GetBlobIsolation ==
    \A r \in Slots :
        LET q == reqs[r] IN
        q.kind = "get_blob"
          => /\ q.res = "Ok" => (OwnsBlob(q) /\ q.ret = objects[q.content_hash])
             /\ (q.contacted \/ q.pc = "get_s3") => OwnsBlob(q)
             /\ (q.pc = "done" /\ ~OwnsBlob(q) /\ ValidHex(q.content_hash)
                    /\ q.res # "Sqlx")
                   => q.res = "Unauthorized"

(* C20 witness: a tenant asked for a blob that only the other tenant has a
   row for, while the shared backend holds the object, and got Unauthorized
   with the backend not contacted; the other tenant read the bytes *)
C20_Witness ==
    \E r1 \in Slots, r2 \in Slots :
        /\ reqs[r1].kind = "get_blob" /\ reqs[r2].kind = "get_blob"
        /\ reqs[r1].content_hash = reqs[r2].content_hash
        /\ reqs[r1].auth = "ApiKey" /\ UserFromKey(reqs[r1].api_key) # 0
        /\ reqs[r1].pc = "done" /\ reqs[r1].res = "Unauthorized"
        /\ ~reqs[r1].contacted
        /\ reqs[r2].res = "Ok" /\ reqs[r2].ret # None

(* C24: the HEAD blob query succeeds exactly when the API key's owner has a
   blob row for the requested hash and otherwise fails with NotFound, and it
   never calls the remote backend. *)
C24_HeadBlobFoundOrNotFound ==
    \A r \in Slots :
        LET q == reqs[r] IN
        (q.kind = "head_blob" /\ q.pc = "done" /\ q.res # "Sqlx")
          => /\ q.res = (IF OwnsBlob(q) THEN "Ok" ELSE "NotFound")
             /\ ~q.contacted

(* C30: when the source yields an error before the metadata is complete
   the decoder resolves at once with WithBlobError::Payload carrying that
   error and produces no WithBlob; when the source yields an error after the
   metadata the payload stream yields it as a Payload error item. *)
C30_TransportErrorPropagates ==
    /\ (hist.srcerr # None /\ hist.errphase = "metadata")
          => /\ fut.res = "Payload"
             /\ fut.err = hist.srcerr
             /\ fut.init_bytes = None
             /\ blob = None
             /\ items = <<>>
    /\ (hist.srcerr # None /\ hist.errphase = "payload")
          => /\ fut.res = "Ok"
             /\ items # <<>>
             /\ items[Len(items)] = [Payload |-> hist.srcerr[1]]

(* the source failed after part of the metadata had been buffered *)
C30_Witness ==
    /\ hist.srcerr # None
    /\ hist.errphase = "metadata"
    /\ fut.metadata_len # None
    /\ fut.metadata_buf # <<>>

(* C32: for every sequence of chunks the decoder never indexes a chunk or
   buffer out of bounds: every poll ends in Pending, success or one of the
   three WithBlobError values, never in a panic. *)
C32_NeverPanics ==
    fut.res \in {"Pending", "Ok", "Payload", "Deserialize", "UnexpectedEOF"}

(* C33: in every reachable state of the decoder after the length is known,
   metadata_received equals the number of bytes held in metadata_buf, and
   that number never exceeds metadata_len. *)
C33_ReceivedCountsBuffer ==
    (fut.metadata_len # None /\ fut.res # "Panic")
        => /\ fut.metadata_received = Len(fut.metadata_buf)
           /\ Len(fut.metadata_buf) <= fut.metadata_len[1]

(* the scanned stream of the chunks cs emits InvalidHash *)
EmitsInvalidHash(cs, hash_claim, content_length) ==
    LET out == Scan(OkItems(cs), HasherNew, 0, hash_claim, content_length)
    IN  \E i \in 1..Len(out) : out[i].tag = "InvalidHash"

(* C34: the integrity verdict of store_blob is independent of chunking: for
   the same payload bytes, claimed hash and content_length, any two
   chunkings either both make the stream emit InvalidHash or both forward
   all bytes without error. *)
C34_VerdictIgnoresChunking ==
    (st.n > 0 /\ ~st.err)
        => \A cs \in PayloadItems(Delivered) :
              EmitsInvalidHash(cs, st.hash_claim, st.content_length)
                 = EmitsInvalidHash(st.items, st.hash_claim, st.content_length)

(* C37: after any sequence of uploads (successful, failed or cancelled, by
   any owners), every committed blob row has a backend object under the hex
   of its content_hash whose bytes hash to that content_hash; an object may
   exist without a row. *)
C37_RowsHaveVerifiedObjects ==
    \A x \in blobs :
        x.committed =>
            /\ objects[x.content_hash] # None
            /\ ToHex(Blake3(objects[x.content_hash][1])) = x.content_hash

(* C36: for every finite sequence of chunks followed by end of stream or by
   a transport error, the decoder eventually resolves with success or with
   an error: it does not stay pending forever. *)
C36_EventuallyResolves ==
    <>(fut.res \in {"Ok", "Payload", "Deserialize", "UnexpectedEOF"})

----------------------------------------------------------------------------
(* Properties of the eval query *)

(* the eval rows as they were before the poll updates: the key columns *)
KeyOf(e) == [id |-> e.id, user_id |-> e.user_id, fn_key |-> e.fn_key,
             fn_hash |-> e.fn_hash, args_hash |-> e.args_hash,
             is_experiment |-> e.is_experiment]

(* the committed eval row e equals every parameter of p that is present *)
EqualsPresent(e, p) ==
    /\ (p.fn_key # None => e.fn_key = p.fn_key[1])
    /\ (p.fn_hash # None => e.fn_hash = p.fn_hash[1])
    /\ (p.args_hash # None => e.args_hash = p.args_hash[1])
    /\ (p.is_experiment # None => e.is_experiment = p.is_experiment[1])

(* C22: the eval query returns exactly the eval rows of the resolved owner
   that equal every present parameter among fn_key, fn_hash, args_hash and
   is_experiment; it never returns a row of another tenant, and with no auth
   it fails with Unauthorized. *)
C22_EvalQueryExact ==
    \A r \in Slots :
        LET q == reqs[r] IN
        (q.kind = "get_evals" /\ q.pc = "done")
          => /\ q.auth = "" => (q.res = "Unauthorized" /\ q.rows = {})
             /\ q.res = "Ok"
                  => /\ { KeyOf(e) : e \in q.rows } =
                          { KeyOf(e) : e \in { x \in evals :
                              /\ x.user_id = UserFromKey(q.api_key)
                              /\ EqualsPresent(x, q.params[1]) } }
                     /\ \A e \in q.rows : e.user_id = UserFromKey(q.api_key)
             /\ q.res # "Ok" => q.rows = {}

(* a query with a present and an absent filter returned some but not all of
   the owner's rows while another tenant has matching rows *)
C22_Witness ==
    \E r \in Slots :
        LET q == reqs[r] IN
        /\ q.kind = "get_evals" /\ q.pc = "done" /\ q.res = "Ok"
        /\ q.params[1].args_hash # None /\ q.params[1].fn_key = None
        /\ q.rows # {}
        /\ \E x \in evals : x.user_id = UserFromKey(q.api_key) /\ KeyOf(x) \notin { KeyOf(e) : e \in q.rows }
        /\ \E x \in evals : x.user_id # UserFromKey(q.api_key) /\ EqualsPresent(x, q.params[1])

(* the poll queries whose UPDATE ran and whose filter and owner match e *)
PollsOf(e) ==
    { r \in Slots :
        /\ reqs[r].kind = "get_evals" /\ reqs[r].polled
        /\ e.user_id = UserFromKey(reqs[r].api_key)
        /\ EqualsPresent(e, reqs[r].params[1]) }

(* C23: a poll query increments by exactly 1 the access counter of exactly
   the owner's rows that match its filter and leaves every other counter
   unchanged, a query without poll changes no counter, and after any
   interleaving of n poll queries matching a row its counter has grown by
   exactly n. *)
C23_PollCountsExact ==
    \A e \in evals : e.accesses = Cardinality(PollsOf(e))

(* two poll queries ran; a row matched both, a row of the same owner matched
   one of them, and a row matched none *)
C23_Witness ==
    /\ \A r \in Slots : reqs[r].polled
    /\ \E e1, e2, e3 \in evals :
          /\ e1.user_id = e2.user_id
          /\ e1.accesses = 2 /\ e2.accesses = 1 /\ e3.accesses = 0

----------------------------------------------------------------------------
(* Properties of the Auth extractor *)

(* C27: every Auth value is one of the two forms: exactly one of api_key()
   and jwt() returns a value, allow_only_api_key succeeds exactly for the
   API-key form and allow_only_jwt exactly for the JWT form, and each returns
   a Forbidden error naming the expected form for the other variant. *)
C27_ExactlyOneForm ==
    \A r \in Slots :
        LET q == reqs[r] IN
        (q.extracted # None /\ q.extracted[1].ok)
          => LET a == q.extracted[1] IN
             /\ a.form \in {"ApiKey", "Jwt"}
             /\ (ApiKeyOf(a) # None) # (JwtOf(a) # None)
             /\ q.only_api_key # None
                  => LET n == q.only_api_key[1] IN
                     /\ n.ok <=> a.form = "ApiKey"
                     /\ n.ok => n.val = a.key
                     /\ ~n.ok => (n.status = "Forbidden" /\ n.expected = "API key")
             /\ q.only_jwt # None
                  => LET n == q.only_jwt[1] IN
                     /\ n.ok <=> a.form = "Jwt"
                     /\ n.ok => n.val = a.claims[1]
                     /\ ~n.ok => (n.status = "Forbidden" /\ n.expected = "JWT")

(* both narrowings ran on an Auth of the JWT form *)
C27_Witness ==
    \E r \in Slots :
        /\ reqs[r].extracted # None /\ reqs[r].extracted[1].form = "Jwt"
        /\ reqs[r].only_api_key # None /\ reqs[r].only_jwt # None

(* C28: a header starting with "Bearer " whose token fails signature or
   expiry verification yields an auth error, never an Auth::Jwt value and
   never the API-key form, and the response is the same for every reason of
   the failure. *)
C28_BadTokenIsAuthError ==
    \A r \in Slots :
        LET q == reqs[r] IN
        (/\ q.extracted # None
         /\ q.header[1].state = "str"
         /\ StartsWithBearer(q.header[1].value)
         /\ ~Decode(TokenOf(q.header[1].value)[1]).ok)
          => /\ ~q.extracted[1].ok
             /\ q.extracted[1].form = ""
             /\ q.pc = "done"
             /\ q.res = "Forbidden"
             /\ ErrorResponse(q.extracted[1]) =
                   [status |-> "Forbidden", body |-> "Invalid JWT provided"]

(* headers with an expired token, a token of wrong signature and a
   malformed token are told apart only inside the error value *)
C28_Witness ==
    \E r \in Slots :
        /\ reqs[r].extracted # None
        /\ reqs[r].header[1].state = "str"
        /\ StartsWithBearer(reqs[r].header[1].value)
        /\ reqs[r].extracted[1].err = "InvalidJwt"
        /\ reqs[r].extracted[1].cause = "ExpiredSignature"

(* C29: a header that does not start with "Bearer " yields the API-key form
   holding the header string verbatim, without validation or database
   access; a request without a readable Authorization header yields
   NoAuthHeader and no Auth value. *)
C29_ApiKeyVerbatim ==
    \A r \in Slots :
        LET q == reqs[r] IN
        q.extracted # None
          => LET h == q.header[1]
                 a == q.extracted[1]
             IN  /\ (h.state = "str" /\ ~StartsWithBearer(h.value))
                       => (a.ok /\ a.form = "ApiKey" /\ a.key = h.value)
                 /\ h.state # "str" => (~a.ok /\ a.err = "NoAuthHeader")
                 /\ blobs = {} /\ evals = {}

(* a header with a leading space and the word Bearer was resolved *)
C29_Witness ==
    \E r \in Slots :
        /\ reqs[r].extracted # None
        /\ reqs[r].header[1].state = "str"
        /\ Len(reqs[r].header[1].value) >= 3
        /\ reqs[r].header[1].value[1] = " "
        /\ reqs[r].header[1].value[2] = "Bearer"
        /\ reqs[r].extracted[1].form = "ApiKey"

----------------------------------------------------------------------------
(* Properties of ApiKey::random *)

(* C31: every key produced by ApiKey::random() is 72 characters long. *)
C31_KeyIs72Long ==
    \A r \in Slots :
        (reqs[r].kind = "random" /\ reqs[r].pc = "done") => Len(reqs[r].key) = 72

====
